---- MODULE Spec2Model ----
(***************************************************************************)
(* Model of azure-chatbot/example.py: the command loop of main() and the   *)
(* ChatbotService methods it awaits.  Every await of an external service   *)
(* (Content Safety, Azure OpenAI through the kernel, Cosmos DB through the *)
(* executor) is a step whose outcome the environment chooses.              *)
(***************************************************************************)
EXTENDS Integers, Sequences, FiniteSets, TLC

VARIABLES
    pc,             \* position of main(): see PcValues
    user_id,        \* main: user_id / ChatbotService.user_id
    user_message,   \* main: the line returned by input("You: ")
    route,          \* branch of the if/elif chain taken for user_message
    store,          \* the Cosmos DB container: a set of items
    store0,         \* the container as it was when user_message was read
    items,          \* _clear_historical_context_sync: items not yet deleted
    history,        \* main: history (text, as a sequence of lines)
    arguments,      \* chat_with_kernel: the KernelArguments last invoked
    chat_response,  \* main: chat_response
    is_safe,        \* main: is_safe
    results,        \* analyze_text: results
    output,         \* what the current turn printed, in order
    calls,          \* external calls the current turn made, in order
    failure,        \* exception raised by an external call of the turn
    clock,          \* last value datetime.now() returned
    nInputs,        \* number of lines read so far
    prevRoute,      \* route of the previous turn
    prevCalls,      \* calls of the previous turn
    pending,        \* calls submitted (awaited) that have not returned yet
    lastTurn        \* message and response of the last turn written in the run

vars == <<pc, user_id, user_message, route, store, store0, items, history,
          arguments, chat_response, is_safe, results, output, calls, failure, clock,
          nInputs, prevRoute, prevCalls, pending, lastTurn>>

-----------------------------------------------------------------------------
(* Bounds *)

MaxInputs == 2
MaxPriorTurns == 6
MaxOtherTurns == 1
MaxSeverity == 3
MaxScenarioInputs == 4
MaxLiveInputs == 3

(* Program constants *)

threshold == 2
HistoryLimit == 5

-----------------------------------------------------------------------------
(* Text: a string is a sequence of one-character strings. *)

UpperCase == <<"A","B","C","D","E","F","G","H","I","J","K","L","M",
               "N","O","P","Q","R","S","T","U","V","W","X","Y","Z">>
LowerCase == <<"a","b","c","d","e","f","g","h","i","j","k","l","m",
               "n","o","p","q","r","s","t","u","v","w","x","y","z">>
Digits == <<"1","2","3","4","5","6","7","8","9">>

\* the lower-case letter of each upper-case letter
LowerOf ==
    [c \in { UpperCase[k] : k \in 1..Len(UpperCase) } |->
        LowerCase[CHOOSE k \in 1..Len(UpperCase) : UpperCase[k] = c]]

\* str.lower() on one character
LowerChar(c) == IF c \in DOMAIN LowerOf THEN LowerOf[c] ELSE c

\* str.lower()
Lower(s) == [k \in 1..Len(s) |-> LowerChar(s[k])]

ExitCmd == <<"e","x","i","t">>
HistoryCmd == <<"h","i","s","t","o","r","y">>
ClearCmd == <<"c","l","e","a","r">>

\* lines the user may type
Lines ==
    { ExitCmd, <<"E","x","i","t">>, <<" ","e","x","i","t"," ">>,
      HistoryCmd, <<"H","I","S","T","O","R","Y">>,
      ClearCmd,
      <<"h","i">>, <<>> }

\* texts the generation service may return
Responses == { <<"o","k">>, <<"n","o">> }

Users == {"alice", "bob"}

None == <<"None">>

-----------------------------------------------------------------------------
(* main: the if/elif chain on user_message *)

\* variant: the comparison is made without lower()
Route_CaseSensitive(line) ==
    IF line = ExitCmd THEN "Exit"
    ELSE IF line = HistoryCmd THEN "ShowHistory"
    ELSE IF line = ClearCmd THEN "ClearHistory"
    ELSE "ProcessMessage"

\* variant: the loop has no history command, the line is answered as chat
Route_NoHistory(line) ==
    IF Lower(line) = ExitCmd THEN "Exit"
    ELSE IF Lower(line) = ClearCmd THEN "ClearHistory"
    ELSE "ProcessMessage"

\* variant: the loop has no exit test
Route_NoExit(line) ==
    IF Lower(line) = HistoryCmd THEN "ShowHistory"
    ELSE IF Lower(line) = ClearCmd THEN "ClearHistory"
    ELSE "ProcessMessage"

Route(line) ==
    IF Lower(line) = ExitCmd THEN "Exit"
    ELSE IF Lower(line) = HistoryCmd THEN "ShowHistory"
    ELSE IF Lower(line) = ClearCmd THEN "ClearHistory"
    ELSE "ProcessMessage"

-----------------------------------------------------------------------------
(* Content Safety *)

Categories == {"hate", "self_harm", "sexual", "violence"}

\* a response's categories_analysis: at most one item per category
AllAnalyses ==
    { { [category |-> c, severity |-> f[c]] : c \in S } :
        S \in SUBSET Categories, f \in [Categories -> 0..MaxSeverity] }

\* the analyses the session model draws from
SessionAnalyses ==
    { { [category |-> "hate", severity |-> 0],
        [category |-> "sexual", severity |-> threshold - 1] },
      { [category |-> "violence", severity |-> threshold],
        [category |-> "sexual", severity |-> 0] } }

\* results = {category: next((item ...), None)}; None is the empty set
Results(categories_analysis) ==
    [c \in Categories |-> { item \in categories_analysis : item.category = c }]

\* variant: a severity equal to the threshold is let through
IsSafe_Strict(res) ==
    ~ \E c \in Categories : \E result \in res[c] : result.severity > threshold

\* is_safe = not any(result and result.severity >= threshold ...)
IsSafe(res) ==
    ~ \E c \in Categories : \E result \in res[c] : result.severity >= threshold

\* the lines analyze_text prints on success
AnalysisOutput(res) ==
    <<[kind |-> "analysis",
       severities |-> UNION { res[c] : c \in Categories }]>>

NoResults == [c \in Categories |-> {}]

-----------------------------------------------------------------------------
(* Cosmos DB container *)

IdOf(t) == <<"id", t>>

Item(u, t, m, r) ==
    [id |-> IdOf(t), user_message |-> m, bot_response |-> r,
     timestamp |-> t, userId |-> u]

\* container.upsert_item: replaces the item with the same id and partition
Upsert(s, item) ==
    { i \in s : ~(i.id = item.id /\ i.userId = item.userId) } \cup {item}

\* variant: the WHERE clause is missing
Query_AllUsers(s, u) == s

\* SELECT * FROM c WHERE c.userId = @userId
Query(s, u) == { i \in s : i.userId = u }

\* variant: ORDER BY c.timestamp ASC
RECURSIVE OrderByTimestamp_Asc(_)
OrderByTimestamp_Asc(s) ==
    IF s = {} THEN <<>>
    ELSE LET low == CHOOSE i \in s : \A j \in s : j.timestamp >= i.timestamp
         IN  <<low>> \o OrderByTimestamp_Asc(s \ {low})

\* ... ORDER BY c.timestamp DESC
RECURSIVE OrderByTimestampDesc(_)
OrderByTimestampDesc(s) ==
    IF s = {} THEN <<>>
    ELSE LET top == CHOOSE i \in s : \A j \in s : j.timestamp <= i.timestamp
         IN  <<top>> \o OrderByTimestampDesc(s \ {top})

\* variant: items[-5:]
Take_Last(seq, n) ==
    SubSeq(seq, IF Len(seq) < n THEN 1 ELSE Len(seq) - n + 1, Len(seq))

\* items[:5]
Take(seq, n) == SubSeq(seq, 1, IF Len(seq) < n THEN Len(seq) ELSE n)

RECURSIVE Format(_)
\* "\n".join([f"User: {..}\nChatBot: {..}" for item in history_items])
Format(seq) ==
    IF seq = <<>> THEN <<>>
    ELSE << [prefix |-> "User: ", text |-> Head(seq).user_message],
            [prefix |-> "ChatBot: ", text |-> Head(seq).bot_response] >>
         \o Format(Tail(seq))

\* _load_historical_context_sync
LoadHistoricalContextSync(s, u) ==
    Format(Take(OrderByTimestampDesc(Query(s, u)), HistoryLimit))

\* turns left in the container by earlier runs
PriorMessage(u, t) == <<IF u = "alice" THEN "q" ELSE "p", Digits[t]>>
PriorResponse(u, t) == <<IF u = "alice" THEN "a" ELSE "b", Digits[t]>>
PriorItem(u, t) == Item(u, t, PriorMessage(u, t), PriorResponse(u, t))
PriorStore(a, b) ==
    { PriorItem("alice", t) : t \in 1..a } \cup { PriorItem("bob", t) : t \in 1..b }
\* none, one, as many as a read returns, and the most the model holds
PriorSizes == {0, 1, HistoryLimit, MaxPriorTurns}
PriorStores ==
    { PriorStore(a, b) : a \in PriorSizes, b \in {0, MaxOtherTurns} }

-----------------------------------------------------------------------------
PcValues == {"Start", "AwaitingInput", "ProcessMessage", "LoadHistory",
             "Generate", "Store", "ShowHistory", "ClearHistory", "Deleting",
             "Exit", "Crashed"}

Init ==
    /\ pc = "Start"
    /\ user_id = "unset"
    /\ user_message = <<>>
    /\ route = "none"
    /\ store \in PriorStores
    /\ store0 = store
    /\ items = {}
    /\ history = <<>>
    /\ arguments = None
    /\ chat_response = None
    /\ is_safe = FALSE
    /\ results = NoResults
    /\ output = <<>>
    /\ calls = <<>>
    /\ failure = "none"
    /\ clock = MaxPriorTurns + 1
    /\ nInputs = 0
    /\ prevRoute = "none"
    /\ prevCalls = <<>>
    /\ pending = {}
    /\ lastTurn = None

\* user_id = input("User ID: "); ChatbotService(loop, user_id).init()
EnterUserId ==
    /\ pc = "Start"
    /\ \E u \in Users : user_id' = u
    /\ pc' = "AwaitingInput"
    /\ UNCHANGED <<user_message, route, store, store0, items, history,
                   arguments, chat_response, is_safe, results, output, calls, failure,
                   clock, nInputs, prevRoute, prevCalls, pending, lastTurn>>

\* user_message = input("You: ") and the if/elif chain, for a user who
\* types lines of the given set, at most max of them
ReadInputFrom(lines, max) ==
    /\ pc = "AwaitingInput"
    /\ nInputs < max
    /\ \E line \in lines :
         /\ user_message' = line
         /\ route' = Route(line)
         /\ pc' = Route(line)
    /\ nInputs' = nInputs + 1
    /\ prevRoute' = route
    /\ prevCalls' = calls
    /\ store0' = store
    /\ items' = {}
    /\ history' = <<>>
    /\ arguments' = None
    /\ chat_response' = None
    /\ is_safe' = FALSE
    /\ results' = NoResults
    /\ output' = <<>>
    /\ calls' = <<>>
    /\ UNCHANGED <<user_id, store, failure, clock, pending, lastTurn>>

ReadInput == ReadInputFrom(Lines, MaxInputs)

\* the call each position of main awaits; the three store operations are
\* jobs of the executor (run_in_executor), the clear one job for the query
\* and all its deletes
OpAt(p) ==
    CASE p = "ProcessMessage" -> "classify"
      [] p = "LoadHistory" -> "read"
      [] p = "ShowHistory" -> "read"
      [] p = "Generate" -> "generate"
      [] p = "Store" -> "write"
      [] p = "ClearHistory" -> "clear"
      [] p = "Deleting" -> "clear"
      [] OTHER -> "none"

\* variant: store_interaction is started without being awaited
AfterSubmit_Detached(p) == IF p = "Store" THEN "AwaitingInput" ELSE p

\* where main is once the call is submitted: 'await' suspends it in place
AfterSubmit(p) == p

\* main reaches an 'await <call>': the call is started and main suspends
Submit ==
    /\ pc \in {"ProcessMessage", "LoadHistory", "ShowHistory", "Generate",
               "Store", "ClearHistory"}
    /\ OpAt(pc) \notin pending
    /\ pending' = pending \cup {OpAt(pc)}
    /\ pc' = AfterSubmit(pc)
    /\ UNCHANGED <<user_id, user_message, route, store, store0, items,
                   history, arguments, chat_response, is_safe, results,
                   output, calls, failure, clock, nInputs, prevRoute,
                   prevCalls, lastTurn>>

\* the awaited call returns or raises: main resumes
Resume(op) ==
    /\ op \in pending
    /\ pending' = pending \ {op}

\* variant: the loop catches the exception and goes on
Raise_Caught(e) ==
    /\ pc' = "AwaitingInput"
    /\ failure' = e

\* an uncaught exception leaves main(): asyncio.run re-raises it
Raise(e) ==
    /\ pc' = "Crashed"
    /\ failure' = e

\* what analyze_text returns on success: (is_safe, results)
AnalyzeReturn(categories_analysis) ==
    <<IsSafe(Results(categories_analysis)), Results(categories_analysis)>>

\* variant: the except clause answers "safe"
ExceptReturn_FailOpen == <<TRUE, NoResults>>

\* what analyze_text returns after 'except HttpResponseError': the method
\* prints and falls off its end
ExceptReturn == None

\* variant: the pipeline runs whatever the verdict
BranchOnSafe_Always(safe) == "LoadHistory"

\* if is_safe: ... else: ...   (line 272)
BranchOnSafe(safe) == IF safe THEN "LoadHistory" ELSE "AwaitingInput"

\* is_safe, _ = <ret> and the branch on is_safe (lines 270-282): unpacking
\* None raises TypeError, which nothing catches
Unpack(ret, printed) ==
    IF ret = None
    THEN /\ pc' = "Crashed"
         /\ output' = output \o printed
         /\ UNCHANGED <<is_safe, results>>
    ELSE /\ is_safe' = ret[1]
         /\ results' = ret[2]
         /\ pc' = BranchOnSafe(ret[1])
         /\ output' = output \o printed
                      \o IF ret[1] THEN <<>> ELSE <<[kind |-> "refusal"]>>

\* await chatbot_service.analyze_text(user_message) and what main does with
\* the value it returns
AnalyzeTextFrom(analyses) ==
    /\ pc = "ProcessMessage"
    /\ Resume("classify")
    /\ calls' = Append(calls, "classify")
    /\ \/ \E categories_analysis \in analyses :
            /\ failure' = failure
            /\ Unpack(AnalyzeReturn(categories_analysis),
                      AnalysisOutput(Results(categories_analysis)))
       \/ \* except HttpResponseError as e: print(...)
          /\ failure' = "HttpResponseError"
          /\ Unpack(ExceptReturn, <<[kind |-> "analyze_failed"]>>)
       \/ \* an exception of the client that is no HttpResponseError
          /\ Raise("ServiceRequestError")
          /\ UNCHANGED <<is_safe, results, output>>
    /\ UNCHANGED <<user_id, user_message, route, store, store0, items,
                   history, arguments, chat_response, clock, nInputs,
                   prevRoute, prevCalls, lastTurn>>

AnalyzeText == AnalyzeTextFrom(SessionAnalyses)

\* history = await chatbot_service.load_historical_context()   (line 274)
LoadHistory ==
    /\ pc = "LoadHistory"
    /\ Resume("read")
    /\ calls' = Append(calls, "read")
    /\ \/ /\ history' = LoadHistoricalContextSync(store, user_id)
          /\ pc' = "Generate"
          /\ failure' = failure
       \/ /\ Raise("StoreReadError")
          /\ history' = history
    /\ UNCHANGED <<user_id, user_message, route, store, store0, items,
                   arguments, chat_response, is_safe, results, output, clock,
                   nInputs, prevRoute, prevCalls, lastTurn>>

\* the 'history' command (lines 256-261)
ShowHistory ==
    /\ pc = "ShowHistory"
    /\ Resume("read")
    /\ calls' = Append(calls, "read")
    /\ \/ /\ history' = LoadHistoricalContextSync(store, user_id)
          /\ output' = output \o <<[kind |-> "history_begin", user |-> user_id],
                                   [kind |-> "history", text |-> history'],
                                   [kind |-> "history_end", user |-> user_id]>>
          /\ pc' = "AwaitingInput"
          /\ failure' = failure
       \/ /\ Raise("StoreReadError")
          /\ UNCHANGED <<history, output>>
    /\ UNCHANGED <<user_id, user_message, route, store, store0, items,
                   arguments, chat_response, is_safe, results, clock, nInputs,
                   prevRoute, prevCalls, lastTurn>>

\* chat_response = await chat_with_kernel(...); print("Chatbot:", ...)
ChatWithKernel ==
    /\ pc = "Generate"
    /\ Resume("generate")
    /\ calls' = Append(calls, "generate")
    /\ arguments' = [user_message |-> user_message, history |-> history]
    /\ \/ \E r \in Responses :
            /\ chat_response' = r
            /\ output' = Append(output, [kind |-> "response", text |-> r])
            /\ pc' = "Store"
            /\ failure' = failure
       \/ /\ Raise("GenerationError")
          /\ UNCHANGED <<chat_response, output>>
    /\ UNCHANGED <<user_id, user_message, route, store, store0, items,
                   history, is_safe, results, clock, nInputs, prevRoute,
                   prevCalls, lastTurn>>

\* variant: every turn is stored under one user id, whoever runs the session
StoreInteractionSync_OneUser(s, u, t, m, r) == Upsert(s, Item("alice", t, m, r))

\* variant: the turn is stored before its response is filled in
StoreInteractionSync_Partial(s, u, t, m, r) == Upsert(s, Item(u, t, m, None))

\* _store_interaction_sync
StoreInteractionSync(s, u, t, m, r) == Upsert(s, Item(u, t, m, r))

\* await chatbot_service.store_interaction(user_message, str(chat_response))
StoreInteraction ==
    /\ pc = "Store"
    /\ Resume("write")
    /\ calls' = Append(calls, "write")
    /\ \E current_time \in clock..(clock + 1) :
         /\ clock' = current_time
         /\ \/ /\ store' = StoreInteractionSync(store, user_id, current_time,
                                                user_message, chat_response)
               /\ lastTurn' = <<user_message, chat_response>>
               /\ pc' = "AwaitingInput"
               /\ failure' = failure
            \/ /\ Raise("StoreWriteError")
               /\ UNCHANGED <<store, lastTurn>>
    /\ UNCHANGED <<user_id, user_message, route, store0, items, history,
                   arguments, chat_response, is_safe, results, output,
                   nInputs, prevRoute, prevCalls>>

\* the 'clear' command: the query of _clear_historical_context_sync
ClearQuery ==
    /\ pc = "ClearHistory"
    /\ "clear" \in pending
    /\ calls' = Append(calls, "query")
    /\ \/ /\ items' = Query(store, user_id)
          /\ failure' = failure
          /\ IF items' = {}
             THEN /\ pc' = "AwaitingInput"
                  /\ Resume("clear")
                  /\ output' = Append(output, [kind |-> "cleared"])
             ELSE /\ pc' = "Deleting"
                  /\ pending' = pending
                  /\ output' = output
       \/ /\ Raise("StoreReadError")
          /\ Resume("clear")
          /\ UNCHANGED <<items, output>>
    /\ UNCHANGED <<user_id, user_message, route, store, store0, history,
                   arguments, chat_response, is_safe, results, clock, nInputs,
                   prevRoute, prevCalls, lastTurn>>

\* variant: the delete addresses another partition and removes nothing
DeleteFrom_Nothing(s, item, u) == s

\* variant: the delete matches the id in every partition
DeleteFrom_AnyPartition(s, item, u) == { i \in s : i.id # item.id }

\* container.delete_item(item, partition_key=self.user_id)
DeleteFrom(s, item, u) ==
    { i \in s : ~(i.id = item.id /\ i.userId = u) }

\* one iteration of 'for item in items' (the query fixes no order), and
\* print("Chat history cleared.") after the last one
DeleteItem ==
    /\ pc = "Deleting"
    /\ "clear" \in pending
    /\ calls' = Append(calls, "delete")
    /\ \E item \in items :
         \/ /\ store' = DeleteFrom(store, item, user_id)
            /\ items' = items \ {item}
            /\ failure' = failure
            /\ IF items' = {}
               THEN /\ pc' = "AwaitingInput"
                    /\ Resume("clear")
                    /\ output' = Append(output, [kind |-> "cleared"])
               ELSE /\ pc' = "Deleting"
                    /\ pending' = pending
                    /\ output' = output
         \/ /\ Raise("StoreDeleteError")
            /\ Resume("clear")
            /\ UNCHANGED <<store, items, output>>
    /\ UNCHANGED <<user_id, user_message, route, store0, history,
                   arguments, chat_response, is_safe, results, clock, nInputs,
                   prevRoute, prevCalls, lastTurn>>

Next ==
    \/ EnterUserId
    \/ ReadInput
    \/ Submit
    \/ AnalyzeText
    \/ LoadHistory
    \/ ShowHistory
    \/ ChatWithKernel
    \/ StoreInteraction
    \/ ClearQuery
    \/ DeleteItem

Spec == Init /\ [][Next]_vars

-----------------------------------------------------------------------------
(* A longer session of a user who only chats, lists and clears, starting   *)
(* with no turn or with as many turns as a read returns                     *)

ScenarioLines == { <<"h","i">>, HistoryCmd, ClearCmd }

InitScenario ==
    /\ pc = "Start"
    /\ user_id = "unset"
    /\ user_message = <<>>
    /\ route = "none"
    /\ store \in { PriorStore(a, MaxOtherTurns) : a \in {0, HistoryLimit} }
    /\ store0 = store
    /\ items = {}
    /\ history = <<>>
    /\ arguments = None
    /\ chat_response = None
    /\ is_safe = FALSE
    /\ results = NoResults
    /\ output = <<>>
    /\ calls = <<>>
    /\ failure = "none"
    /\ clock = MaxPriorTurns + 1
    /\ nInputs = 0
    /\ prevRoute = "none"
    /\ prevCalls = <<>>
    /\ pending = {}
    /\ lastTurn = None

ReadScenarioInput == ReadInputFrom(ScenarioLines, MaxScenarioInputs)

NextScenario ==
    \/ EnterUserId
    \/ ReadScenarioInput
    \/ Submit
    \/ AnalyzeText
    \/ LoadHistory
    \/ ShowHistory
    \/ ChatWithKernel
    \/ StoreInteraction
    \/ ClearQuery
    \/ DeleteItem

SpecScenario == InitScenario /\ [][NextScenario]_vars

-----------------------------------------------------------------------------
(* The session under the scheduling of asyncio: a call main awaits is      *)
(* started, the executor runs the job it is given, and main is resumed     *)
(* when the call is over. Nothing obliges the user to type a line.         *)

LiveLines == { <<"h","i">>, ExitCmd, <<"E","x","i","t">>, HistoryCmd, ClearCmd }

InitLive ==
    /\ pc = "Start"
    /\ user_id = "unset"
    /\ user_message = <<>>
    /\ route = "none"
    /\ store \in { PriorStore(0, 0), PriorStore(2, MaxOtherTurns) }
    /\ store0 = store
    /\ items = {}
    /\ history = <<>>
    /\ arguments = None
    /\ chat_response = None
    /\ is_safe = FALSE
    /\ results = NoResults
    /\ output = <<>>
    /\ calls = <<>>
    /\ failure = "none"
    /\ clock = MaxPriorTurns + 1
    /\ nInputs = 0
    /\ prevRoute = "none"
    /\ prevCalls = <<>>
    /\ pending = {}
    /\ lastTurn = None

ReadLiveInput == ReadInputFrom(LiveLines, MaxLiveInputs)

\* the steps of a turn, which the event loop and the executor take
TurnStep ==
    \/ Submit
    \/ AnalyzeText
    \/ LoadHistory
    \/ ShowHistory
    \/ ChatWithKernel
    \/ StoreInteraction
    \/ ClearQuery
    \/ DeleteItem

NextLive ==
    \/ EnterUserId
    \/ ReadLiveInput
    \/ Submit
    \/ AnalyzeText
    \/ LoadHistory
    \/ ShowHistory
    \/ ChatWithKernel
    \/ StoreInteraction
    \/ ClearQuery
    \/ DeleteItem

SpecLive == InitLive /\ [][NextLive]_vars /\ WF_vars(TurnStep)

-----------------------------------------------------------------------------
(* analyze_text on every analysis the service can return, for one message *)

InitAnalyze ==
    /\ pc = "ProcessMessage"
    /\ user_id \in Users
    /\ user_message = <<"h","i">>
    /\ route = "ProcessMessage"
    /\ store \in PriorStores
    /\ store0 = store
    /\ items = {}
    /\ history = <<>>
    /\ arguments = None
    /\ chat_response = None
    /\ is_safe = FALSE
    /\ results = NoResults
    /\ output = <<>>
    /\ calls = <<>>
    /\ failure = "none"
    /\ clock = MaxPriorTurns + 1
    /\ nInputs = 1
    /\ prevRoute = "none"
    /\ prevCalls = <<>>
    /\ pending = {"classify"}
    /\ lastTurn = None

AnalyzeAny == AnalyzeTextFrom(AllAnalyses)

NextAnalyze == AnalyzeAny

SpecAnalyze == InitAnalyze /\ [][NextAnalyze]_vars

-----------------------------------------------------------------------------
(* Vocabulary of the properties *)

Called(c) == \E k \in 1..Len(calls) : calls[k] = c
Printed(kind) == \E k \in 1..Len(output) : output[k].kind = kind
OwnedBy(s, u) == { i \in s : i.userId = u }
NotOwnedBy(s, u) == { i \in s : i.userId # u }

\* the current line is a chat message whose classification returned
ClassifyFailed == failure \in {"HttpResponseError", "ServiceRequestError"}
Classified ==
    route = "ProcessMessage" /\ Called("classify") /\ ~ClassifyFailed
TurnOver == pc \in {"AwaitingInput", "Crashed"}

\* the turn the current message and its response make
ThisTurn ==
    [id |-> <<"id", clock>>, user_message |-> user_message,
     bot_response |-> chat_response, timestamp |-> clock, userId |-> user_id]

TypeOK ==
    /\ pc \in PcValues
    /\ is_safe \in BOOLEAN
    /\ nInputs \in 0..MaxInputs

\* C1 as stated: once the turn of a chat message is over, the store holds a
\* turn for the message if and only if the verdict was safe and generation
\* produced a response.
C1_StoredIffSafeAndGenerated ==
    (route = "ProcessMessage" /\ TurnOver) =>
        (ThisTurn \in store
            <=> (Classified /\ is_safe /\ chat_response # None))

\* C1 amended: a chat message changes the store only when its verdict was
\* safe, generation produced a response and the write was made; when the
\* safe, answered message's turn returns to AwaitingInput the store holds
\* its turn; after a rejected message or a failed classification, history
\* read, generation or write the store is as it was; no stored turn lacks a
\* response.
C1_StoredIffSafeGeneratedAndWritten ==
    /\ \A i \in store : i.bot_response # None
    /\ route = "ProcessMessage" =>
        /\ store # store0 =>
             Classified /\ is_safe /\ chat_response # None /\ Called("write")
        /\ (pc = "AwaitingInput" /\ Classified /\ is_safe) =>
             chat_response # None /\ ThisTurn \in store
        /\ (failure # "none" \/ (Classified /\ ~is_safe)) => store = store0

C1_Witness ==
    /\ route = "ProcessMessage" /\ pc = "AwaitingInput"
    /\ Classified /\ is_safe /\ chat_response # None
    /\ ThisTurn \in store /\ ThisTurn \notin store0

\* C2: a chat message with an unsafe verdict makes no history read, no
\* generation call and no store write; the refusal notice is displayed, the
\* loop is back at AwaitingInput and the store is unchanged.
C2_UnsafeIsRefused ==
    (Classified /\ ~is_safe) =>
        /\ pc = "AwaitingInput"
        /\ calls = <<"classify">>
        /\ Len(output) > 0 /\ output[Len(output)] = [kind |-> "refusal"]
        /\ ~Printed("response")
        /\ store = store0

C2_Witness ==
    /\ Classified /\ ~is_safe /\ pc = "AwaitingInput"
    /\ Printed("refusal") /\ OwnedBy(store, user_id) # {}

\* the severity of a category, an absent category counting as 0
SeverityOrZero(c) ==
    IF results[c] = {} THEN 0 ELSE (CHOOSE r \in results[c] : TRUE).severity

\* C3: classify answers safe exactly when every category's severity is
\* strictly below 2 (absent counted as 0), unsafe exactly when one is 2 or
\* more.
C3_SafeIffAllBelowThreshold ==
    Classified =>
        /\ is_safe = TRUE <=> \A c \in Categories : SeverityOrZero(c) < 2
        /\ is_safe = FALSE <=> \E c \in Categories : SeverityOrZero(c) >= 2

C3_Witness ==
    /\ Classified /\ ~is_safe
    /\ \E c \in Categories : results[c] = {}
    /\ \E c \in Categories : SeverityOrZero(c) = 2
    /\ \A c \in Categories : SeverityOrZero(c) <= 2

\* C4: when the classification call fails, no history read, no generation
\* call and no store write is made for the message and no bot response is
\* displayed.
C4_ClassifyFailureStopsPipeline ==
    ClassifyFailed =>
        /\ calls = <<"classify">>
        /\ ~Printed("response") /\ ~Printed("refusal")
        /\ pc \notin {"LoadHistory", "Generate", "Store"}
        /\ store = store0
        /\ chat_response = None

C4_Witness ==
    failure = "HttpResponseError" /\ Printed("analyze_failed")

\* C5 as stated: a classification failure aborts the current turn only: the
\* loop is back at AwaitingInput and the session is not terminated.
C5_ClassifyFailureKeepsSession ==
    ClassifyFailed => pc # "Crashed"

StoreOrGenerationFailed ==
    failure \in {"GenerationError", "StoreReadError", "StoreWriteError",
                 "StoreDeleteError"}

\* C6: a failure of generation or of a store read, write or delete ends the
\* session: the loop never returns to AwaitingInput; after a generation
\* failure no response was displayed and no store write was made.
C6_GenerationOrStoreFailureEndsSession ==
    StoreOrGenerationFailed =>
        /\ pc = "Crashed"
        /\ failure = "GenerationError" =>
             /\ ~Printed("response") /\ ~Called("write")
             /\ chat_response = None /\ store = store0

C6_Witness ==
    /\ failure = "GenerationError" /\ pc = "Crashed"
    /\ calls = <<"classify", "read", "generate">>

Whitespace == {" ", "\t"}

RECURSIVE LStrip(_)
LStrip(s) ==
    IF s # <<>> /\ Head(s) \in Whitespace THEN LStrip(Tail(s)) ELSE s

RECURSIVE RStrip(_)
RStrip(s) ==
    IF s # <<>> /\ s[Len(s)] \in Whitespace
    THEN RStrip(SubSeq(s, 1, Len(s) - 1)) ELSE s

\* the input with leading and trailing whitespace removed
Trim(s) == RStrip(LStrip(s))

IsCommand(line, cmd) == Trim(Lower(line)) = cmd

\* C7 as stated: a line that equals exit, history or clear after trimming
\* and case folding goes to Exit, ShowHistory or ClearHistory; every other
\* non-empty line goes to ProcessMessage.
C7_RoutingOnTrimmedInput ==
    route # "none" =>
        /\ IsCommand(user_message, ExitCmd) => route = "Exit"
        /\ IsCommand(user_message, HistoryCmd) => route = "ShowHistory"
        /\ IsCommand(user_message, ClearCmd) => route = "ClearHistory"
        /\ (/\ user_message # <<>>
            /\ ~IsCommand(user_message, ExitCmd)
            /\ ~IsCommand(user_message, HistoryCmd)
            /\ ~IsCommand(user_message, ClearCmd)) => route = "ProcessMessage"

\* C7 amended: the match is on the whole line as typed, case-insensitively
\* and without trimming: a line equal to exit, history or clear up to case
\* goes to Exit, ShowHistory or ClearHistory and makes no classification,
\* generation or store write; every other line (a command with whitespace
\* around it included) goes to ProcessMessage.
C7_RoutingOnWholeInput ==
    route # "none" =>
        LET folded == Lower(user_message) IN
        /\ route = "Exit" <=> folded = ExitCmd
        /\ route = "ShowHistory" <=> folded = HistoryCmd
        /\ route = "ClearHistory" <=> folded = ClearCmd
        /\ route = "ProcessMessage" <=>
             folded \notin {ExitCmd, HistoryCmd, ClearCmd}
        /\ route # "ProcessMessage" =>
             /\ ~Called("classify") /\ ~Called("generate") /\ ~Called("write")
             /\ pc \notin {"ProcessMessage", "LoadHistory", "Generate", "Store"}
        /\ route = "ProcessMessage" =>
             (Called("classify") \/ pc = "ProcessMessage")

C7_Witness ==
    /\ route = "ShowHistory" /\ pc = "AwaitingInput"
    /\ user_message # HistoryCmd

\* the session user's turns when the line was read, and a turn's place among
\* them counted from the most recent
Own == OwnedBy(store0, user_id)
Rank(i) == Cardinality({ j \in Own : j.timestamp > i.timestamp }) + 1
HistoryWasRead == Called("read") /\ failure # "StoreReadError"

\* C8: a history read returns only the session user's turns, at most 5, the
\* 5 with the greatest timestamps, most recent first, each as a "User: "
\* line followed by a "ChatBot: " line; the history command prints this
\* text and the generation call receives it.
C8_HistoryIsLastFiveDescending ==
    HistoryWasRead =>
        /\ Len(history) = 2 * (IF Cardinality(Own) < 5 THEN Cardinality(Own) ELSE 5)
        /\ \A i \in Own : Rank(i) <= 5 =>
             /\ history[2 * Rank(i) - 1] =
                    [prefix |-> "User: ", text |-> i.user_message]
             /\ history[2 * Rank(i)] =
                    [prefix |-> "ChatBot: ", text |-> i.bot_response]
        /\ route = "ShowHistory" =>
             \E k \in 1..Len(output) :
                 output[k] = [kind |-> "history", text |-> history]
        /\ Called("generate") => arguments.history = history

C8_Witness ==
    /\ route = "ShowHistory" /\ pc = "AwaitingInput" /\ HistoryWasRead
    /\ Cardinality(Own) > 5
    /\ NotOwnedBy(store0, user_id) # {}
    /\ Len(history) = 10

\* C9: after a clear that completes, the store holds no turn of the session
\* user and every other user's turn is as it was before the clear.
C9_ClearRemovesOnlyOwnTurns ==
    (route = "ClearHistory" /\ pc = "AwaitingInput") =>
        /\ OwnedBy(store, user_id) = {}
        /\ NotOwnedBy(store, user_id) = NotOwnedBy(store0, user_id)

C9_Witness ==
    /\ route = "ClearHistory" /\ pc = "AwaitingInput"
    /\ Called("delete") /\ Cardinality(Own) > 1
    /\ NotOwnedBy(store0, user_id) # {}

\* C10: a clear on an empty history completes without error, issues no
\* delete, leaves the whole store unchanged and returns to AwaitingInput,
\* the second of two consecutive clears like the first.
C10_ClearOnEmptyIsNoOp ==
    (route = "ClearHistory" /\ Own = {} /\ Called("query") /\ failure = "none") =>
        /\ pc = "AwaitingInput"
        /\ calls = <<"query">>
        /\ store = store0
        /\ output = <<[kind |-> "cleared"]>>

C10_Witness ==
    /\ prevRoute = "ClearHistory" /\ prevCalls = <<"query">>
    /\ route = "ClearHistory" /\ calls = <<"query">>
    /\ pc = "AwaitingInput" /\ failure = "none"
    /\ Own = {} /\ store # {}

\* the previous line was a chat message whose turn was written
PreviousWritten ==
    prevRoute = "ProcessMessage"
        /\ prevCalls = <<"classify", "read", "generate", "write">>

\* C11: from an empty history, one safe message m answered with r leaves
\* exactly one turn (m, r) of the user in the store and the history command
\* then lists exactly that turn; the history read that follows any written
\* message lists that message and its response first; the history command
\* that follows a clear outputs nothing.
C11_WriteThenReadRoundTrip ==
    /\ (route = "ProcessMessage" /\ pc = "AwaitingInput" /\ Called("write")
            /\ Own = {}) =>
          /\ Cardinality(OwnedBy(store, user_id)) = 1
          /\ \A i \in OwnedBy(store, user_id) :
                i.user_message = user_message /\ i.bot_response = chat_response
    /\ (HistoryWasRead /\ PreviousWritten /\ ~Called("write")) =>
          /\ Len(history) >= 2
          /\ history[1] = [prefix |-> "User: ", text |-> lastTurn[1]]
          /\ history[2] = [prefix |-> "ChatBot: ", text |-> lastTurn[2]]
          /\ Cardinality(Own) = 1 => Len(history) = 2
    /\ (HistoryWasRead /\ route = "ShowHistory" /\ prevRoute = "ClearHistory") =>
          /\ history = <<>>
          /\ \E k \in 1..Len(output) :
                output[k] = [kind |-> "history", text |-> <<>>]

C11_Witness ==
    /\ nInputs = 4 /\ pc = "AwaitingInput"
    /\ route = "ShowHistory" /\ HistoryWasRead /\ history = <<>>
    /\ prevRoute = "ClearHistory" /\ prevCalls = <<"query", "delete">>
    /\ lastTurn # None
    /\ NotOwnedBy(store, user_id) # {}

\* C12 as stated: a stored turn is never changed or removed except by a
\* clear, and every successful write adds one turn under an id no stored
\* turn of the user has, also when two writes take the same timestamp.
C12_WriteCreatesNewTurn ==
    /\ route # "ClearHistory" => store0 \subseteq store
    /\ (route = "ProcessMessage" /\ pc = "AwaitingInput" /\ Called("write")) =>
          /\ \A i \in Own : i.id # <<"id", clock>>
          /\ Cardinality(OwnedBy(store, user_id)) = Cardinality(Own) + 1

PipelineOrder == <<"classify", "read", "generate", "write">>
IsPrefix(a, b) == Len(a) <= Len(b) /\ \A k \in 1..Len(a) : a[k] = b[k]

\* C13: in the turn of a chat message the calls are made in the order
\* classify, history read, generate, store write, each submitted only when
\* the one before has returned, the response being displayed before the
\* write is submitted; at most one call is outstanding at any moment, none
\* while main waits for input, and the store is untouched until the write,
\* so the history read cannot hold the turn's own message.
C13_SequentialPipeline ==
    /\ Cardinality(pending) <= 1
    /\ pc \in {"Start", "AwaitingInput", "Exit", "Crashed"} => pending = {}
    /\ route = "ProcessMessage" =>
          /\ IsPrefix(calls, PipelineOrder)
          /\ \A op \in pending :
                Len(calls) < Len(PipelineOrder)
                    /\ op = PipelineOrder[Len(calls) + 1]
          /\ ("write" \in pending \/ Called("write")) => Printed("response")
          /\ Printed("response") => Called("generate")
          /\ ~Called("write") => store = store0
          /\ HistoryWasRead => Len(history) <= 2 * Cardinality(Own)

C13_Witness ==
    /\ route = "ProcessMessage" /\ pc = "Store" /\ pending = {"write"}
    /\ calls = <<"classify", "read", "generate">>
    /\ Printed("response") /\ store = store0 /\ Len(history) > 0

\* C14: when a delete of a clear fails, the turns deleted before it stay
\* deleted, the user's other turns (the one whose delete failed included)
\* stay stored, nothing is inserted again, other users' turns are as they
\* were, and the clear attempts no further delete.
C14_ClearIsNotTransactional ==
    failure = "StoreDeleteError" =>
        /\ pc = "Crashed" /\ route = "ClearHistory"
        /\ store \subseteq store0
        /\ NotOwnedBy(store, user_id) = NotOwnedBy(store0, user_id)
        /\ OwnedBy(store, user_id) = items
        /\ items # {} /\ items \subseteq Own
        /\ Len(calls) >= 2 /\ calls[1] = "query"
        /\ \A k \in 2..Len(calls) : calls[k] = "delete"
        /\ Cardinality(Own) - Cardinality(items) = Len(calls) - 2

C14_Witness ==
    /\ failure = "StoreDeleteError" /\ pc = "Crashed"
    /\ Len(calls) >= 4
    /\ Cardinality(items) >= 2
    /\ Cardinality(Own) = Cardinality(items) + 2

\* the exit command is the line main last read
ExitTaken == route # "none" /\ Lower(user_message) = ExitCmd

\* no call has failed so far
NoCallFailed == failure = "none"

\* C15: in a run where no external call ever fails, every line read that
\* is not the exit command is followed by main being back at the prompt;
\* once the exit command is read no step is taken any more: no call is
\* started or completed and no variable changes.
C15_TurnsEndAndExitIsTerminal ==
    /\ []NoCallFailed => [](pc \notin {"Start", "Exit"} => <>(pc = "AwaitingInput"))
    /\ [][ExitTaken => (pc = "Exit" /\ UNCHANGED vars)]_vars

C15_Witness ==
    /\ pc = "Exit" /\ ExitTaken /\ pending = {} /\ calls = <<>>
    /\ nInputs = MaxLiveInputs
    /\ prevRoute = "ProcessMessage"
    /\ prevCalls = PipelineOrder
    /\ NoCallFailed

\* the line main last read is the given command
LineIs(cmd) == route # "none" /\ Lower(user_message) = cmd

\* C16: on the history command the turn calls nothing but one store read
\* (no classification, generation, write or delete), leaves the store as it
\* was, and is back at the prompt once the read has returned; on the clear
\* command the turn calls nothing but the clear (its query and deletes): no
\* classification, no generation, nothing written.
C16_HistoryOnlyReads ==
    /\ LineIs(HistoryCmd) =>
          /\ pc \in {"ShowHistory", "AwaitingInput", "Crashed"}
          /\ calls \in {<<>>, <<"read">>}
          /\ pending \subseteq {"read"}
          /\ calls = <<"read">> => pending = {}
          /\ store = store0
          /\ ~Printed("response") /\ ~Printed("refusal")
          /\ pc = "AwaitingInput" <=> (calls = <<"read">> /\ NoCallFailed)
    /\ LineIs(ClearCmd) =>
          /\ \A k \in 1..Len(calls) : calls[k] \in {"query", "delete"}
          /\ pending \subseteq {"clear"}
          /\ store \subseteq store0
          /\ ~Printed("response") /\ ~Printed("refusal")

C16_Witness ==
    /\ user_message = <<"H","I","S","T","O","R","Y">>
    /\ pc = "AwaitingInput"
    /\ calls = <<"read">> /\ pending = {}
    /\ Len(history) = 2 * HistoryLimit
    /\ store = store0
    /\ prevCalls = PipelineOrder
    /\ NotOwnedBy(store, user_id) # {}

\* what the session's store operations touch, in a state past the startup
OnlyOwnUserId ==
    /\ user_id \in Users
    /\ NotOwnedBy(store, user_id) = NotOwnedBy(store0, user_id)
    /\ items \subseteq Own
    /\ \A k \in 1..Len(history) :
          \E i \in Own : history[k].text \in {i.user_message, i.bot_response}
    /\ \A i \in store \ store0 :
          /\ i.userId = user_id
          /\ route = "ProcessMessage" /\ is_safe
          /\ i.user_message = user_message
          /\ \E k \in 1..Len(output) :
                output[k] = [kind |-> "response", text |-> i.bot_response]

\* C17: every turn a run writes carries the user id entered at startup, the
\* line read in that turn (which the classification found safe) and the
\* response printed in that turn; the reads return and the deletes remove
\* turns of that user id only, the turns of other users stay as they were;
\* the user id never changes after startup and the line does not change
\* within a turn.
C17_WrittenTurnIsTheSessionsOwn ==
    /\ [](pc # "Start" => OnlyOwnUserId)
    /\ [][/\ pc # "Start" => user_id' = user_id
          /\ nInputs' = nInputs => user_message' = user_message]_vars

C17_Witness ==
    /\ user_id = "bob" /\ pc = "AwaitingInput"
    /\ route = "ProcessMessage" /\ Called("write")
    /\ Cardinality(store \ store0) = 1
    /\ nInputs = 2 /\ prevCalls = PipelineOrder
    /\ Cardinality(OwnedBy(store, "bob")) >= 2
    /\ OwnedBy(store, "alice") # {}

====
